---- MODULE Spec2Model ----
(***************************************************************************)
(* Model of three parts of the juju agent:                                 *)
(*   - caasunitprovisioner.unitWorker (watch / fetch / ensure loop hosted  *)
(*     in a catacomb),                                                     *)
(*   - deployer.SimpleContext (unit deployment through upstart jobs),      *)
(*   - the upgrade gates and the dependency engine that hosts the workers. *)
(* Each part has its own specification over its own variables.             *)
(***************************************************************************)
EXTENDS Integers, Sequences, FiniteSets, TLC

----------------------------------------------------------------------------
(* Bounds of the model *)

\* live change notifications the container-spec watcher may deliver
MaxNotifs == 2

\* calls of Unlock on one gate
MaxUnlocks == 2

\* reads of Unlocked() by one waiter
MaxReads == 2

\* worker deaths the dependency engine goes through
MaxDeaths == 3

----------------------------------------------------------------------------
(* unitWorker: values *)

Applications == {"gitlab"}
UnitNames == {"gitlab/0", "gitlab/1"}

\* container-spec payloads held by the state server; Absent = none defined yet
Absent == "absent"
Payloads == {"image: nginx", "image: redis", "{{malformed"}

\* error values (NoErr is Go's nil)
NoErr == "nil"
ErrDying == "catacomb is dying"
ErrWatch == "cannot watch container spec"
ErrClosed == "watcher closed channel"
ErrNotFound == "container spec not found"
ErrFetch == "cannot fetch container spec"
ErrParse == "cannot parse container spec"
ErrEnsure == "cannot ensure unit"
ErrWatcher == "watcher failed"

NoSpec == [ImageName |-> ""]

\* caas.ParseContainerSpec: the parsed spec and the parse error
ParseContainerSpec(specStr) ==
    CASE specStr = "image: nginx" -> [spec |-> [ImageName |-> "nginx"], err |-> NoErr]
      [] specStr = "image: redis" -> [spec |-> [ImageName |-> "redis"], err |-> NoErr]
      [] OTHER -> [spec |-> NoSpec, err |-> ErrParse]

VARIABLES
    application,   \* unitWorker.application
    unit,          \* unitWorker.unit
    pc,            \* position of the loop goroutine
    specStr,       \* loop local: the payload fetched in this iteration
    spec,          \* loop local: the spec parsed in this iteration
    dying,         \* catacomb: the Dying signal is raised
    killedAt,      \* where the loop was when Kill() was called ("never": not called)
    tracked,       \* catacomb: the watcher was added as a child
    loopErr,       \* value returned by loop (NoErr while it runs)
    childErr,      \* catacomb: first error of a child that died on its own
    waited,        \* Wait() has returned
    waitErr,       \* the value Wait() returned
    wstate,        \* container-spec watcher: none / running / stopped / failed
    changes,       \* notifications ready on cw.Changes() (0 or 1)
    closed,        \* cw.Changes() is closed
    sent,          \* notifications the watcher has produced so far
    store,         \* state server: unit name -> payload or Absent
    ensureLog,     \* broker: the EnsureUnit calls received, in order
    iters,         \* history: one record per live notification taken by the loop
    jobs,          \* initDir: the upstart jobs installed, as <<deployerTag, unitTag>>
    toolsDirs,     \* dataDir: the unit tags that have a tools directory link
    agentDirs,     \* dataDir: the unit tags that have an agent directory (with its conf)
    syslogFiles,   \* syslogConfigDir: the unit tags that have a 26-juju-<tag>.conf
    syslogConfigPath, \* SimpleContext.syslogConfigPath of each context ("" when unset)
    lastCall,      \* the last SimpleContext call that returned, with its error
    tick,          \* flips at every SimpleContext call
    gateStarted,   \* gate manifold name -> its worker has been started
    gateUnlocked,  \* gate manifold name -> the gate's channel is closed (Unlocked)
    unlockCalls,   \* gate manifold name -> calls of Unlock so far
    unlockEvents,  \* gate manifold name -> times the gate went from Locked to Unlocked
    holding,       \* waiter -> the gate whose Waiter it got from Output ("none" before)
    seen,          \* waiter -> what its last read of Unlocked() showed
    reads,         \* waiter -> reads of Unlocked() so far
    slotWorker,    \* engine: manifold name -> absent / running / dead
    slotGen,       \* engine: manifold name -> generation, bumped at every start
    workerOut,     \* engine: manifold name -> output of the slot's current worker
    depGen,        \* engine: generation of A that B's worker was started with
    starts,        \* history: manifold name -> the starts of its worker, in order
    deaths         \* worker deaths so far

uwVars == <<application, unit, pc, specStr, spec, dying, killedAt, tracked, loopErr,
            childErr, waited, waitErr, wstate, changes, closed, sent, store,
            ensureLog, iters>>

depVars == <<jobs, toolsDirs, agentDirs, syslogFiles, syslogConfigPath, lastCall, tick>>

gateVars == <<gateStarted, gateUnlocked, unlockCalls, unlockEvents, holding, seen, reads>>

engVars == <<slotWorker, slotGen, workerOut, depGen, starts, deaths>>

notUW == <<depVars, gateVars, engVars>>
notDep == <<uwVars, gateVars, engVars>>
notGate == <<uwVars, depVars, engVars>>
notEng == <<uwVars, depVars, gateVars>>

vars == <<uwVars, depVars, gateVars, engVars>>

----------------------------------------------------------------------------
(* deployer.SimpleContext: values *)

\* the deployer tags of the contexts; they share initDir, dataDir and syslogConfigDir
DeployerTags == {"machine-0", "machine-1"}
DeployUnitNames == {"wordpress/0", "mysql/0"}

\* state.UnitTag
UnitTag(unitName) ==
    CASE unitName = "wordpress/0" -> "unit-wordpress-0"
      [] unitName = "mysql/0" -> "unit-mysql-0"

ErrAlreadyDeployed == "unit is already deployed"
ErrNotDeployed == "unit is not deployed"
ErrConfWrite == "cannot write agent conf"
ErrSyslogWrite == "cannot write syslog conf"
ErrInstall == "cannot install upstart job"
ErrSvcRemove == "cannot remove upstart job"
ErrRemoveAll == "cannot remove agent directory"
ErrRemove == "remove: no such file or directory"

\* the calls of DeployUnit and RecallUnit that the system may fail. DeployUnit
\* goes on after a failed ChangeAgentTools and returns at the first other
\* failure; RecallUnit returns at the first failure.
DeployFailures ==
    [tools : BOOLEAN, at : {"none", "conf.Write", "syslog.Write", "Install"}]
RecallFailures == {"none", "svc.Remove", "RemoveAll"}

NoCall == [op |-> "none", ctx |-> "", unit |-> "", err |-> NoErr]

\* NewSimpleContext for every deployer, on a machine with nothing deployed
InitDep ==
    /\ jobs = {}
    /\ toolsDirs = {}
    /\ agentDirs = {}
    /\ syslogFiles = {}
    /\ syslogConfigPath = [c \in DeployerTags |-> ""]
    /\ lastCall = NoCall
    /\ tick = 0

----------------------------------------------------------------------------
(* gates and dependency engine: values and initial state *)

\* the gate manifolds machine.Manifolds returns
Gates == {"upgrade-steps-gate", "upgrade-check-gate"}

\* the consumers that take a gate's Waiter
Waiters == {"w1", "w2"}

\* machine.Manifolds has returned: both gates exist, Locked, no worker started
InitGate ==
    /\ gateStarted = [g \in Gates |-> FALSE]
    /\ gateUnlocked = [g \in Gates |-> FALSE]
    /\ unlockCalls = [g \in Gates |-> 0]
    /\ unlockEvents = [g \in Gates |-> 0]
    /\ holding = [w \in Waiters |-> "none"]
    /\ seen = [w \in Waiters |-> "unread"]
    /\ reads = [w \in Waiters |-> 0]

\* the graph {A (no deps), B (deps = [A])}
Manifolds == {"A", "B"}
Inputs(name) == IF name = "B" THEN {"A"} ELSE {}

\* the engine has been built with the graph installed, no worker started
InitEng ==
    /\ slotWorker = [n \in Manifolds |-> "absent"]
    /\ slotGen = [n \in Manifolds |-> 0]
    /\ workerOut = [n \in Manifolds |-> 0]
    /\ depGen = 0
    /\ starts = [n \in Manifolds |-> <<>>]
    /\ deaths = 0

----------------------------------------------------------------------------
(* unitWorker: state after newUnitWorker returned (loop goroutine started) *)

InitUW ==
    /\ application \in Applications
    /\ unit \in UnitNames
    /\ pc = "watch"
    /\ specStr = ""
    /\ spec = NoSpec
    /\ dying = FALSE
    /\ killedAt = "never"
    /\ tracked = FALSE
    /\ loopErr = NoErr
    /\ childErr = NoErr
    /\ waited = FALSE
    /\ waitErr = NoErr
    /\ wstate = "none"
    /\ changes = 0
    /\ closed = FALSE
    /\ sent = 0
    /\ store = [u \in UnitNames |-> Absent]
    /\ ensureLog = <<>>
    /\ iters = <<>>

\* the loop returns err: catacomb.Invoke's goroutine runs catacomb.Kill(plan.Work())
LoopReturn(err) ==
    /\ pc' = "done"
    /\ loopErr' = err
    /\ dying' = TRUE

\* the last history record, updated
SetLast(field, value) ==
    [iters EXCEPT ![Len(iters)] = [@ EXCEPT ![field] = value]]

\* errors.IsNotFound
IsNotFound(err) == err = ErrNotFound

\* ContainerSpecGetter.WatchContainerSpec: the outcomes the state server can give
WatchContainerSpec(u) == {NoErr, ErrWatch}

\* ContainerSpecGetter.ContainerSpec: the outcomes the state server can give for
\* the unit: its payload, NotFound while none is defined, or a failure
ContainerSpec(u) ==
    {[str |-> "", err |-> ErrFetch]} \cup
    {IF store[u] = Absent
        THEN [str |-> "", err |-> ErrNotFound]
        ELSE [str |-> store[u], err |-> NoErr]}

\* ContainerBroker.EnsureUnit: the outcomes the broker can give
EnsureUnitResults == {NoErr, ErrEnsure}

\* catacomb.Add: binds the worker to the catacomb unless it is already dying
CatacombAdd ==
    tracked' = IF dying THEN tracked ELSE TRUE

\* catacomb.Wait's result: the primary task's error, else the first child error
TerminalError ==
    IF loopErr \notin {NoErr, ErrDying} THEN loopErr ELSE childErr

----------------------------------------------------------------------------
(* unitWorker.loop, one action per blocking call *)

\* cw, err := w.containerSpecGetter.WatchContainerSpec(w.unit)
LoopWatch ==
    /\ pc = "watch"
    /\ \E err \in WatchContainerSpec(unit) :
        IF err # NoErr
        THEN /\ LoopReturn(err)
             /\ UNCHANGED wstate
        ELSE /\ wstate' = "running"
             /\ pc' = "add"
             /\ UNCHANGED <<loopErr, dying>>
    /\ UNCHANGED <<notUW, application, unit, specStr, spec, killedAt, tracked, childErr,
                   waited, waitErr, changes, closed, sent, store, ensureLog, iters>>

\* w.catacomb.Add(cw), its result dropped
LoopAdd ==
    /\ pc = "add"
    /\ CatacombAdd
    /\ pc' = "select"
    /\ UNCHANGED <<notUW, application, unit, specStr, spec, dying, killedAt, loopErr, childErr,
                   waited, waitErr, wstate, changes, closed, sent, store, ensureLog,
                   iters>>

\* a select that lacks the Dying case
LoopSelectDyingMissing ==
    /\ FALSE
    /\ UNCHANGED vars

\* case <-w.catacomb.Dying()
LoopSelectDying ==
    /\ pc = "select"
    /\ dying
    /\ LoopReturn(ErrDying)
    /\ UNCHANGED <<notUW, application, unit, specStr, spec, killedAt, tracked, childErr,
                   waited, waitErr, wstate, changes, closed, sent, store, ensureLog,
                   iters>>

NewIter == [fetch |-> "pending", str |-> "", parse |-> "pending", ensures |-> 0,
            ensureErr |-> NoErr]

\* a receive whose second value is not looked at
OnChangeUnchecked(ok) ==
    /\ changes' = IF changes > 0 THEN changes - 1 ELSE 0
    /\ iters' = Append(iters, NewIter)
    /\ pc' = "fetch"
    /\ UNCHANGED <<loopErr, dying>>

\* what the receive from cw.Changes() leads to, ok being the receive's second value
OnChange(ok) ==
    IF ~ok
    THEN /\ LoopReturn(ErrClosed)
         /\ UNCHANGED <<changes, iters>>
    ELSE /\ changes' = changes - 1
         /\ iters' = Append(iters, NewIter)
         /\ pc' = "fetch"
         /\ UNCHANGED <<loopErr, dying>>

\* case _, ok := <-cw.Changes()
LoopSelectChange ==
    /\ pc = "select"
    /\ changes > 0 \/ closed
    /\ OnChange(changes > 0)
    /\ UNCHANGED <<notUW, application, unit, specStr, spec, killedAt, tracked, childErr,
                   waited, waitErr, wstate, closed, sent, store, ensureLog>>

\* a loop that goes on to EnsureUnit whatever ParseContainerSpec returned
OnPayloadUnchecked(str) ==
    LET parsed == ParseContainerSpec(str) IN
    /\ specStr' = str
    /\ iters' = [iters EXCEPT ![Len(iters)] =
                    [@ EXCEPT !.fetch = NoErr, !.str = str, !.parse = parsed.err]]
    /\ spec' = parsed.spec
    /\ pc' = "ensure"
    /\ UNCHANGED <<loopErr, dying>>

\* spec, err := caas.ParseContainerSpec(specStr): a parse error is returned
\* annotated, a parsed spec goes on to EnsureUnit
OnPayload(str) ==
    LET parsed == ParseContainerSpec(str) IN
    /\ specStr' = str
    /\ iters' = [iters EXCEPT ![Len(iters)] =
                    [@ EXCEPT !.fetch = NoErr, !.str = str, !.parse = parsed.err]]
    /\ IF parsed.err # NoErr
       THEN /\ LoopReturn(ErrParse)
            /\ UNCHANGED spec
       ELSE /\ spec' = parsed.spec
            /\ pc' = "ensure"
            /\ UNCHANGED <<loopErr, dying>>

\* a loop that returns NotFound like any other error
OnFetchedEscalates(res) ==
    IF res.err # NoErr
    THEN /\ LoopReturn(res.err)
         /\ iters' = SetLast("fetch", res.err)
         /\ UNCHANGED <<specStr, spec>>
    ELSE OnPayload(res.str)

\* what the loop does with the result of ContainerSpec: continue on NotFound,
\* return any other error, go on with the payload
OnFetched(res) ==
    IF IsNotFound(res.err)
    THEN /\ pc' = "select"
         /\ iters' = SetLast("fetch", res.err)
         /\ UNCHANGED <<specStr, spec, loopErr, dying>>
    ELSE IF res.err # NoErr
    THEN /\ LoopReturn(res.err)
         /\ iters' = SetLast("fetch", res.err)
         /\ UNCHANGED <<specStr, spec>>
    ELSE OnPayload(res.str)

\* specStr, err := w.containerSpecGetter.ContainerSpec(w.unit) ... ParseContainerSpec
LoopFetch ==
    /\ pc = "fetch"
    /\ \E res \in ContainerSpec(unit) : OnFetched(res)
    /\ UNCHANGED <<notUW, application, unit, killedAt, tracked, childErr, waited, waitErr,
                   wstate, changes, closed, sent, store, ensureLog>>

\* an EnsureUnit call that carries the state server's payload of the moment
EnsureArgsRefetched ==
    [app |-> application, unit |-> unit,
     spec |-> ParseContainerSpec(store[unit]).spec]

\* the arguments of the EnsureUnit call
EnsureArgs == [app |-> application, unit |-> unit, spec |-> spec]

\* a loop that logs an EnsureUnit error and carries on
OnEnsuredIgnores(err) ==
    /\ pc' = "select"
    /\ UNCHANGED <<loopErr, dying>>

\* what the loop does with the result of EnsureUnit
OnEnsured(err) ==
    IF err # NoErr
    THEN LoopReturn(err)
    ELSE /\ pc' = "select"
         /\ UNCHANGED <<loopErr, dying>>

\* err := w.broker.EnsureUnit(w.application, w.unit, spec)
LoopEnsure ==
    /\ pc = "ensure"
    /\ \E err \in EnsureUnitResults :
        /\ ensureLog' = Append(ensureLog, [args |-> EnsureArgs, iter |-> Len(iters)])
        /\ iters' = [iters EXCEPT ![Len(iters)] =
                        [@ EXCEPT !.ensures = @ + 1, !.ensureErr = err]]
        /\ OnEnsured(err)
    /\ UNCHANGED <<notUW, application, unit, specStr, spec, killedAt, tracked, childErr,
                   waited, waitErr, wstate, changes, closed, sent, store>>

----------------------------------------------------------------------------
(* unitWorker: the worker interface and the environment *)

Killed == killedAt # "never"

\* unitWorker.Kill: w.catacomb.Kill(nil)
Kill ==
    /\ killedAt = "never"
    /\ killedAt' = pc
    /\ dying' = TRUE
    /\ UNCHANGED <<notUW, application, unit, pc, specStr, spec, tracked, loopErr, childErr,
                   waited, waitErr, wstate, changes, closed, sent, store, ensureLog,
                   iters>>

\* unitWorker.Wait returns: the loop has returned and every tracked child stopped
Wait ==
    /\ ~waited
    /\ pc = "done"
    /\ tracked => wstate # "running"
    /\ waited' = TRUE
    /\ waitErr' = TerminalError
    /\ UNCHANGED <<notUW, application, unit, pc, specStr, spec, dying, killedAt, tracked,
                   loopErr, childErr, wstate, changes, closed, sent, store, ensureLog,
                   iters>>

\* the catacomb stops a tracked child once it is dying; the stopped watcher
\* may or may not close its channel
CatacombStopChild ==
    /\ tracked
    /\ dying
    /\ wstate = "running"
    /\ wstate' = "stopped"
    /\ changes' = 0
    /\ closed' \in BOOLEAN
    /\ UNCHANGED <<notUW, application, unit, pc, specStr, spec, dying, killedAt, tracked,
                   loopErr, childErr, waited, waitErr, sent, store, ensureLog, iters>>

\* a tracked child that died on its own kills the catacomb with its error
CatacombChildDied ==
    /\ tracked
    /\ wstate = "failed"
    /\ childErr = NoErr
    /\ childErr' = ErrWatcher
    /\ dying' = TRUE
    /\ UNCHANGED <<notUW, application, unit, pc, specStr, spec, killedAt, tracked, loopErr,
                   waited, waitErr, wstate, changes, closed, sent, store, ensureLog,
                   iters>>

\* the watcher signals a change
WatcherNotify ==
    /\ wstate = "running"
    /\ changes = 0
    /\ sent < MaxNotifs
    /\ changes' = 1
    /\ sent' = sent + 1
    /\ UNCHANGED <<notUW, application, unit, pc, specStr, spec, dying, killedAt, tracked,
                   loopErr, childErr, waited, waitErr, wstate, closed, store,
                   ensureLog, iters>>

\* the watcher fails for good and closes its channel
WatcherFail ==
    /\ wstate = "running"
    /\ wstate' = "failed"
    /\ changes' = 0
    /\ closed' = TRUE
    /\ UNCHANGED <<notUW, application, unit, pc, specStr, spec, dying, killedAt, tracked,
                   loopErr, childErr, waited, waitErr, sent, store, ensureLog, iters>>

\* the state server's payload for a unit is set or removed
SetSpec ==
    /\ \E u \in UnitNames, p \in Payloads \cup {Absent} :
        /\ p # store[u]
        /\ store' = [store EXCEPT ![u] = p]
    /\ UNCHANGED <<notUW, application, unit, pc, specStr, spec, dying, killedAt, tracked,
                   loopErr, childErr, waited, waitErr, wstate, changes, closed, sent,
                   ensureLog, iters>>

NextUW ==
    \/ LoopWatch
    \/ LoopAdd
    \/ LoopSelectDying
    \/ LoopSelectChange
    \/ LoopFetch
    \/ LoopEnsure
    \/ Kill
    \/ Wait
    \/ CatacombStopChild
    \/ CatacombChildDied
    \/ WatcherNotify
    \/ WatcherFail
    \/ SetSpec

\* a unit worker just built; the other parts stay as constructed
StartUW == InitUW /\ InitDep /\ InitGate /\ InitEng

SpecUW == StartUW /\ [][NextUW]_vars

\* the scheduling the Go runtime gives: a goroutine that can run does run, a
\* select picks at random among its ready cases (so a case that is ready again
\* and again is taken), the catacomb stops its children and a blocked Wait returns
FairUW ==
    /\ WF_vars(LoopWatch)
    /\ WF_vars(LoopAdd)
    /\ WF_vars(LoopSelectChange)
    /\ SF_vars(LoopSelectDying)
    /\ WF_vars(LoopFetch)
    /\ WF_vars(LoopEnsure)
    /\ WF_vars(CatacombStopChild)
    /\ WF_vars(Wait)

SpecUWFair == SpecUW /\ FairUW

----------------------------------------------------------------------------
(* unitWorker: properties *)

IterIds == 1..Len(iters)

\* the loop step that has just received NotFound from ContainerSpec
FetchedNotFound ==
    /\ pc = "fetch"
    /\ iters' # iters
    /\ iters'[Len(iters')].fetch = ErrNotFound

\* C1: a notification whose fetch returns NotFound leads to no EnsureUnit call
\* and does not end the loop: the step that gets NotFound goes back to the
\* select with the loop still running, however many NotFound results came before.
C1_NotFoundContinues ==
    /\ [](\A i \in IterIds :
            iters[i].fetch = ErrNotFound =>
                /\ iters[i].ensures = 0
                /\ \A j \in 1..Len(ensureLog) : ensureLog[j].iter # i)
    /\ [][FetchedNotFound =>
            /\ pc' = "select"
            /\ loopErr' = NoErr
            /\ dying' = dying
            /\ ensureLog' = ensureLog]_vars

C1_Witness ==
    /\ Len(iters) = MaxNotifs
    /\ \A i \in IterIds : iters[i].fetch = ErrNotFound
    /\ pc = "select"
    /\ loopErr = NoErr

\* C2: an EnsureUnit error ends the loop with that error, Wait returns it, and
\* the failed call is the last notification handled and the last EnsureUnit call.
C2_EnsureErrorTerminates ==
    \A i \in IterIds :
        iters[i].ensureErr # NoErr =>
            /\ i = Len(iters)
            /\ pc = "done"
            /\ loopErr = iters[i].ensureErr
            /\ ensureLog # <<>>
            /\ ensureLog[Len(ensureLog)].iter = i
            /\ waited => waitErr = iters[i].ensureErr

C2_Witness ==
    /\ waited
    /\ waitErr = ErrEnsure
    /\ Len(iters) >= 2

\* the loop step taken at the select while the change channel is closed
StepOnClosed ==
    /\ pc = "select"
    /\ closed
    /\ changes = 0
    /\ pc' # pc

\* C3: with the change channel closed the loop ends with a non-nil error (the
\* closed-channel error unless the Dying case was ready too) and neither
\* fetches nor calls EnsureUnit.
C3_ClosedChannelTerminates ==
    /\ [](closed => changes = 0)
    /\ [](loopErr = ErrClosed => pc = "done" /\ closed)
    /\ [][StepOnClosed =>
            /\ pc' = "done"
            /\ loopErr' \in {ErrClosed, ErrDying}
            /\ ~dying => loopErr' = ErrClosed
            /\ iters' = iters
            /\ ensureLog' = ensureLog]_vars

C3_Witness ==
    /\ pc = "done"
    /\ loopErr = ErrClosed
    /\ killedAt = "never"

\* C5: every EnsureUnit call carries the worker's own application and unit and
\* the spec parsed from the payload fetched for the same notification, whose
\* fetch and parse both succeeded; no notification gets two calls.
C5_EnsureCarriesFetchedSpec ==
    /\ \A j \in 1..Len(ensureLog) :
        LET e == ensureLog[j] IN
        /\ e.args.app = application
        /\ e.args.unit = unit
        /\ e.iter \in IterIds
        /\ iters[e.iter].fetch = NoErr
        /\ iters[e.iter].parse = NoErr
        /\ ParseContainerSpec(iters[e.iter].str).err = NoErr
        /\ e.args.spec = ParseContainerSpec(iters[e.iter].str).spec
    /\ \A j, k \in 1..Len(ensureLog) : ensureLog[j].iter = ensureLog[k].iter => j = k
    /\ \A i \in IterIds : iters[i].ensures <= 1

\* two calls with different specs, the payload having changed since the last fetch
C5_Witness ==
    /\ Len(ensureLog) >= 2
    /\ ensureLog[1].args.spec # ensureLog[2].args.spec
    /\ store[unit] # iters[ensureLog[2].iter].str

\* Kill was called while the loop had not returned yet
KilledRunning == killedAt \notin {"never", "done"}

\* Kill was called while the loop was inside its for loop
KilledInLoop == killedAt \in {"select", "fetch", "ensure"}

\* C6 as claimed: after Kill on a running loop, the loop exits with the dying
\* error. Stated for a Kill that finds the loop inside its for loop and for
\* exits that leave the change channel open, where it fails all the same.
C6_ExitsWithDyingError ==
    (KilledInLoop /\ pc = "done" /\ ~closed) => loopErr = ErrDying

\* C6 amended: after Kill on a running loop, the loop eventually exits and Wait
\* returns; the loop's error is non-nil, and it is the dying error unless the
\* call or receive the loop went through after the Kill failed.
C6_KillTerminates ==
    /\ (KilledRunning ~> (pc = "done" /\ waited))
    /\ [](pc = "done" => loopErr # NoErr)
    /\ []((KilledRunning /\ pc = "done" /\ loopErr # ErrDying) =>
            \/ loopErr = ErrWatch /\ killedAt = "watch"
            \/ loopErr = ErrClosed /\ closed
            \/ loopErr = ErrFetch /\ iters[Len(iters)].fetch = ErrFetch
            \/ loopErr = ErrParse /\ iters[Len(iters)].parse = ErrParse
            \/ loopErr = ErrEnsure /\ iters[Len(iters)].ensureErr = ErrEnsure)

C6_Witness ==
    /\ killedAt = "select"
    /\ pc = "done"
    /\ loopErr = ErrDying
    /\ waited
    /\ tracked
    /\ wstate = "stopped"

\* C7: once Wait has returned the container-spec watcher has been stopped.
C7_WatcherNotLeaked ==
    waited => wstate # "running"

\* the notifications whose fetch failed with an error other than NotFound, or
\* whose payload did not parse
FailedFetch(i) == iters[i].fetch = ErrFetch
FailedParse(i) == iters[i].fetch = NoErr /\ iters[i].parse = ErrParse

\* C12: a fetch that fails with an error other than NotFound, or a payload that
\* does not parse, ends the loop with a non-nil error (the fetch error, or the
\* annotated parse error), and no EnsureUnit call is made for that notification,
\* which is the last one the loop handles.
C12_FetchOrParseErrorTerminates ==
    \A i \in IterIds :
        (FailedFetch(i) \/ FailedParse(i)) =>
            /\ i = Len(iters)
            /\ pc = "done"
            /\ loopErr = (IF FailedFetch(i) THEN ErrFetch ELSE ErrParse)
            /\ iters[i].ensures = 0
            /\ \A j \in 1..Len(ensureLog) : ensureLog[j].iter # i

C12_Witness ==
    /\ Len(iters) = 2
    /\ iters[1].ensures = 1
    /\ FailedParse(2)
    /\ iters[2].str = "{{malformed"
    /\ pc = "done"
    /\ loopErr = ErrParse

\* Kill found the loop outside a reconcile: before its select, or blocked in it
KilledIdle == killedAt \in {"watch", "add", "select"}

\* C18: once Kill has raised Dying the loop begins no new reconcile: after a
\* Kill that found it outside a reconcile it never goes on to a ContainerSpec
\* fetch or an EnsureUnit call, also when a change is pending along with Dying.
C18_NoReconcileAfterKill ==
    KilledIdle => pc \notin {"fetch", "ensure"}

----------------------------------------------------------------------------
(* deployer.SimpleContext: helpers *)

\* SimpleContext.upstartService: the job name badged with the deployer tag
upstartService(c, unitName) == <<c, UnitTag(unitName)>>

\* upstart.Service.Installed
Installed(svc) == svc \in jobs

Returned(op, c, unitName, err) ==
    /\ lastCall' = [op |-> op, ctx |-> c, unit |-> unitName, err |-> err]
    /\ tick' = 1 - tick

----------------------------------------------------------------------------
(* SimpleContext.DeployUnit *)

\* DeployUnit after its sanity check; fails tells the calls that fail.
\* The deferred removeOnErr calls run when the error returned is not nil:
\* os.Remove takes away the tools link and the syslog file, and fails on the
\* agent directory, which holds the conf that conf.Write wrote.
DeployBody(c, unitName, fails) ==
    LET tag == UnitTag(unitName)
        linked == ~fails.tools
        tools1 == IF linked THEN toolsDirs \cup {tag} ELSE toolsDirs
    IN
    IF fails.at = "conf.Write"
    THEN /\ toolsDirs' = tools1 \ {tag}
         /\ UNCHANGED <<jobs, agentDirs, syslogFiles, syslogConfigPath>>
         /\ Returned("DeployUnit", c, unitName, ErrConfWrite)
    ELSE IF fails.at = "syslog.Write"
    THEN /\ toolsDirs' = tools1 \ {tag}
         /\ agentDirs' = agentDirs \cup {tag}
         /\ UNCHANGED <<jobs, syslogFiles, syslogConfigPath>>
         /\ Returned("DeployUnit", c, unitName, ErrSyslogWrite)
    ELSE IF fails.at = "Install"
    THEN /\ toolsDirs' = tools1 \ {tag}
         /\ agentDirs' = agentDirs \cup {tag}
         /\ syslogFiles' = syslogFiles \ {tag}
         /\ syslogConfigPath' = [syslogConfigPath EXCEPT ![c] = tag]
         /\ UNCHANGED jobs
         /\ Returned("DeployUnit", c, unitName, ErrInstall)
    ELSE /\ toolsDirs' = tools1
         /\ agentDirs' = agentDirs \cup {tag}
         /\ syslogFiles' = syslogFiles \cup {tag}
         /\ syslogConfigPath' = [syslogConfigPath EXCEPT ![c] = tag]
         /\ jobs' = jobs \cup {upstartService(c, unitName)}
         /\ Returned("DeployUnit", c, unitName, NoErr)

\* a DeployUnit that lacks the sanity check
DeployUnitUnchecked(c, unitName, fails) ==
    DeployBody(c, unitName, fails)

DeployUnit(c, unitName, fails) ==
    IF Installed(upstartService(c, unitName))
    THEN /\ Returned("DeployUnit", c, unitName, ErrAlreadyDeployed)
         /\ UNCHANGED <<jobs, toolsDirs, agentDirs, syslogFiles, syslogConfigPath>>
    ELSE DeployBody(c, unitName, fails)

----------------------------------------------------------------------------
(* SimpleContext.RecallUnit *)

\* RecallUnit after its sanity check: the job, the agent directory, the file
\* at ctx.syslogConfigPath and the tools directory are removed in that order
RecallBody(c, unitName, fails) ==
    LET tag == UnitTag(unitName) IN
    IF fails = "svc.Remove"
    THEN /\ UNCHANGED <<jobs, toolsDirs, agentDirs, syslogFiles, syslogConfigPath>>
         /\ Returned("RecallUnit", c, unitName, ErrSvcRemove)
    ELSE IF fails = "RemoveAll"
    THEN /\ jobs' = jobs \ {upstartService(c, unitName)}
         /\ UNCHANGED <<toolsDirs, agentDirs, syslogFiles, syslogConfigPath>>
         /\ Returned("RecallUnit", c, unitName, ErrRemoveAll)
    ELSE /\ jobs' = jobs \ {upstartService(c, unitName)}
         /\ agentDirs' = agentDirs \ {tag}
         /\ syslogFiles' = syslogFiles \ {syslogConfigPath[c]}
         /\ toolsDirs' = toolsDirs \ {tag}
         /\ UNCHANGED syslogConfigPath
         /\ Returned("RecallUnit", c, unitName,
                     IF tag \in toolsDirs THEN NoErr ELSE ErrRemove)

\* a RecallUnit that lacks the sanity check
RecallUnitUnchecked(c, unitName, fails) ==
    RecallBody(c, unitName, fails)

RecallUnit(c, unitName, fails) ==
    IF ~Installed(upstartService(c, unitName))
    THEN /\ Returned("RecallUnit", c, unitName, ErrNotDeployed)
         /\ UNCHANGED <<jobs, toolsDirs, agentDirs, syslogFiles, syslogConfigPath>>
    ELSE RecallBody(c, unitName, fails)

----------------------------------------------------------------------------
(* SimpleContext.DeployedUnits: file names and deployedRe, character by character *)

\* a string as the sequence of its characters
Chars(str) ==
    CASE str = "machine-0" ->
            <<"m", "a", "c", "h", "i", "n", "e", "-", "0">>
      [] str = "machine-1" ->
            <<"m", "a", "c", "h", "i", "n", "e", "-", "1">>
      [] str = "wordpress/0" ->
            <<"w", "o", "r", "d", "p", "r", "e", "s", "s", "/", "0">>
      [] str = "mysql/0" ->
            <<"m", "y", "s", "q", "l", "/", "0">>
      [] str = "unit-wordpress-0" ->
            <<"u", "n", "i", "t", "-", "w", "o", "r", "d", "p", "r", "e", "s", "s", "-", "0">>
      [] str = "unit-mysql-0" ->
            <<"u", "n", "i", "t", "-", "m", "y", "s", "q", "l", "-", "0">>

Letters == {"a", "b", "c", "d", "e", "f", "g", "h", "i", "j", "k", "l", "m", "n",
            "o", "p", "q", "r", "s", "t", "u", "v", "w", "x", "y", "z"}
Digits == {"0", "1", "2", "3", "4", "5", "6", "7", "8", "9"}

\* the character class [a-z0-9-]
TagChars == Letters \cup Digits \cup {"-"}

\* the file upstart keeps for a job: initDir/<name>.conf, the name being
\* "jujud-" + ctx.deployerTag + ":" + tag
ConfName(job) ==
    <<"j", "u", "j", "u", "d", "-">> \o Chars(job[1]) \o <<":">> \o Chars(job[2])
        \o <<".", "c", "o", "n", "f">>

\* files in initDir that no deployer installed
ForeignFiles ==
    {<<"s", "s", "h", ".", "c", "o", "n", "f">>,
     <<"j", "u", "j", "u", "d", "-", "m", "a", "c", "h", "i", "n", "e", "-", "0", ".", "c", "o", "n", "f">>,
     <<"j", "u", "j", "u", "d", "-", "m", "a", "c", "h", "i", "n", "e", "-", "0", ":", "u", "n", "i", "t", "-", "w", "o", "r", "d", "p", "r", "e", "s", "s", "-", "0", ".", "c", "o", "n", "f", ".", "b", "a", "k">>,
     <<"j", "u", "j", "u", "d", "-", "m", "a", "c", "h", "i", "n", "e", "-", "0", ":", "u", "n", "i", "t", "-", "l", "o", "g", "g", "i", "n", "g", ".", "c", "o", "n", "f">>}

From(s, n) == SubSeq(s, n, Len(s))

FirstIndex(s, ch) ==
    IF \E i \in 1..Len(s) : s[i] = ch
    THEN CHOOSE i \in 1..Len(s) : s[i] = ch /\ \A j \in 1..(i - 1) : s[j] # ch
    ELSE 0

LastIndex(s, ch) ==
    IF \E i \in 1..Len(s) : s[i] = ch
    THEN CHOOSE i \in 1..Len(s) : s[i] = ch /\ \A j \in (i + 1)..Len(s) : s[j] # ch
    ELSE 0

AllIn(s, class) == s # <<>> /\ \A i \in 1..Len(s) : s[i] \in class

\* deployedRe.FindStringSubmatch for
\* ^jujud-([a-z0-9-]+):unit-([a-z0-9-]+)-([0-9]+)\.conf$
\* the name and its three groups, or no groups when the name does not match
FindStringSubmatch(name) ==
    LET colon == FirstIndex(name, ":")
        group1 == SubSeq(name, 7, colon - 1)
        rest == From(name, colon + 1)
        middle == SubSeq(rest, 6, Len(rest) - 5)
        dash == LastIndex(middle, "-")
        group2 == SubSeq(middle, 1, dash - 1)
        group3 == From(middle, dash + 1)
    IN
    IF /\ Len(name) >= 6
       /\ SubSeq(name, 1, 6) = <<"j", "u", "j", "u", "d", "-">>
       /\ colon > 7
       /\ AllIn(group1, TagChars)
       /\ Len(rest) >= 10
       /\ SubSeq(rest, 1, 5) = <<"u", "n", "i", "t", "-">>
       /\ From(rest, Len(rest) - 4) = <<".", "c", "o", "n", "f">>
       /\ dash > 1
       /\ AllIn(group2, TagChars)
       /\ AllIn(group3, Digits)
    THEN <<name, group1, group2, group3>>
    ELSE <<>>

\* state.IsUnitName: <application>/<number>, the application starting with a
\* letter, made of [a-z0-9-], its last dash-separated part holding a letter
IsUnitName(name) ==
    LET slash == FirstIndex(name, "/")
        app == SubSeq(name, 1, slash - 1)
        last == From(app, LastIndex(app, "-") + 1)
    IN
    /\ slash > 1
    /\ AllIn(From(name, slash + 1), Digits)
    /\ AllIn(app, TagChars)
    /\ app[1] \in Letters
    /\ last # <<>>
    /\ \E i \in 1..Len(last) : last[i] \in Letters

\* the unit name DeployedUnits makes of a matching file name
UnitNameOf(groups) == groups[3] \o <<"/">> \o groups[4]

\* what the loop of DeployedUnits makes of one file name: the groups of
\* deployedRe, and the unit name when the groups make one
Entry(name) ==
    LET groups == FindStringSubmatch(name) IN
    IF Len(groups) = 4
    THEN [groups |-> groups, unitName |-> UnitNameOf(groups),
          isUnit |-> IsUnitName(UnitNameOf(groups))]
    ELSE [groups |-> groups, unitName |-> <<>>, isUnit |-> FALSE]

\* every job initDir can hold
JobNames == DeployerTags \X {UnitTag(u) : u \in DeployUnitNames}

\* the entries of the job files and of the foreign files, worked out once
JobEntries == {<<job, Entry(ConfName(job))>> : job \in JobNames}
ForeignEntries == {Entry(name) : name \in ForeignFiles}

\* ioutil.ReadDir(ctx.initDir), each file name with its entry
ReadDir == {file[2] : file \in {f \in JobEntries : f[1] \in jobs}} \cup ForeignEntries

\* a DeployedUnits that does not look at the deployer tag
DeployedUnitsUnbadged(c) ==
    {e.unitName : e \in {f \in ReadDir : Len(f.groups) = 4 /\ f.isUnit}}

\* SimpleContext.DeployedUnits: the unit names of the files in initDir that
\* match deployedRe and carry the context's deployer tag
DeployedUnits(c) ==
    {e.unitName : e \in {f \in ReadDir :
                            /\ Len(f.groups) = 4
                            /\ f.groups[2] = Chars(c)
                            /\ f.isUnit}}

----------------------------------------------------------------------------
(* deployer: the calls a deployer makes *)

CallDeployUnit ==
    /\ \E c \in DeployerTags, u \in DeployUnitNames, fails \in DeployFailures :
        DeployUnit(c, u, fails)
    /\ UNCHANGED notDep

CallRecallUnit ==
    /\ \E c \in DeployerTags, u \in DeployUnitNames, fails \in RecallFailures :
        RecallUnit(c, u, fails)
    /\ UNCHANGED notDep

\* the agent restarts: NewSimpleContext builds the context anew
CallNewSimpleContext ==
    /\ \E c \in DeployerTags :
        /\ syslogConfigPath[c] # ""
        /\ syslogConfigPath' = [syslogConfigPath EXCEPT ![c] = ""]
    /\ UNCHANGED <<jobs, toolsDirs, agentDirs, syslogFiles, lastCall, tick>>
    /\ UNCHANGED notDep

NextDep ==
    \/ CallDeployUnit
    \/ CallRecallUnit
    \/ CallNewSimpleContext

\* every part as constructed, the unit worker built for gitlab/0
Start == InitUW /\ unit = "gitlab/0" /\ InitDep /\ InitGate /\ InitEng

SpecDep == Start /\ [][NextDep]_vars

----------------------------------------------------------------------------
(* deployer: properties *)

Artefacts == <<jobs, toolsDirs, agentDirs, syslogFiles, syslogConfigPath>>

\* the step is a call of op by context c for unit u
IsCall(op, c, u) ==
    /\ tick' # tick
    /\ lastCall'.op = op
    /\ lastCall'.ctx = c
    /\ lastCall'.unit = u

\* C9: DeployUnit on a unit whose badged job is installed returns the
\* already-deployed error and leaves the jobs, tools links, agent directories,
\* syslog files and every context's syslogConfigPath as they were.
C9_DeployInstalledRejected ==
    [][\A c \in DeployerTags, u \in DeployUnitNames :
        (IsCall("DeployUnit", c, u) /\ Installed(upstartService(c, u))) =>
            /\ lastCall'.err = ErrAlreadyDeployed
            /\ Artefacts' = Artefacts]_vars

\* rejected while the unit's syslog file is gone and another unit's path is recorded
C9_Witness ==
    /\ lastCall.op = "DeployUnit"
    /\ lastCall.err = ErrAlreadyDeployed
    /\ upstartService(lastCall.ctx, lastCall.unit) \in jobs
    /\ UnitTag(lastCall.unit) \notin syslogFiles
    /\ syslogConfigPath[lastCall.ctx] # UnitTag(lastCall.unit)

\* C10: RecallUnit on a unit whose badged job is not installed returns the
\* not-deployed error and removes nothing.
C10_RecallNotInstalledRejected ==
    [][\A c \in DeployerTags, u \in DeployUnitNames :
        (IsCall("RecallUnit", c, u) /\ ~Installed(upstartService(c, u))) =>
            /\ lastCall'.err = ErrNotDeployed
            /\ Artefacts' = Artefacts]_vars

\* rejected while another deployer has the unit deployed, its artefacts in place
C10_Witness ==
    /\ lastCall.op = "RecallUnit"
    /\ lastCall.err = ErrNotDeployed
    /\ upstartService(lastCall.ctx, lastCall.unit) \notin jobs
    /\ UnitTag(lastCall.unit) \in agentDirs \cap syslogFiles \cap toolsDirs
    /\ syslogConfigPath[lastCall.ctx] = UnitTag(lastCall.unit)

\* the units context c has a job for
OwnUnits(c) == {u \in DeployUnitNames : upstartService(c, u) \in jobs}

\* the units context c has deployed and not recalled after the step, going by
\* what the call returned: removes(err) tells the RecallUnit results that count
\* as a recall
OwnUnitsAfter(c, removes(_)) ==
    IF tick' = tick \/ lastCall'.ctx # c
    THEN OwnUnits(c)
    ELSE IF lastCall'.op = "DeployUnit" /\ lastCall'.err = NoErr
    THEN OwnUnits(c) \cup {lastCall'.unit}
    ELSE IF lastCall'.op = "RecallUnit" /\ removes(lastCall'.err)
    THEN OwnUnits(c) \ {lastCall'.unit}
    ELSE OwnUnits(c)

RecalledNil(err) == err = NoErr

\* RecallUnit got past svc.Installed and svc.Remove
RecalledJob(err) == err \notin {ErrNotDeployed, ErrSvcRemove}

\* DeployedUnits lists the names of the units the context has a job for
ListsOwnUnits ==
    \A c \in DeployerTags : DeployedUnits(c) = {Chars(u) : u \in OwnUnits(c)}

\* C11 as claimed: a context lists exactly the units it deployed successfully
\* and has not recalled (RecallUnit returned nil), whatever other deployers do.
C11_ListsDeployedNotRecalled ==
    /\ []ListsOwnUnits
    /\ [][\A c \in DeployerTags : OwnUnits(c)' = OwnUnitsAfter(c, RecalledNil)]_vars

\* C11 amended: a context lists exactly the units it deployed successfully and
\* whose job no later RecallUnit of its own has removed, be it a RecallUnit that
\* returned an error after removing the job; it never lists a unit that only
\* another deployer installed, nor a file no deployer installed.
C11_ListsOwnInstalledJobs ==
    /\ []ListsOwnUnits
    /\ \A c \in DeployerTags : OwnUnits(c) = {}
    /\ [][\A c \in DeployerTags : OwnUnits(c)' = OwnUnitsAfter(c, RecalledJob)]_vars

\* two deployers with different lists, one of them after a RecallUnit of its own
C11_Witness ==
    /\ DeployedUnits("machine-0") = {Chars("wordpress/0")}
    /\ DeployedUnits("machine-1") = {Chars("wordpress/0"), Chars("mysql/0")}
    /\ lastCall.op = "RecallUnit"
    /\ lastCall.ctx = "machine-0"
    /\ lastCall.unit = "mysql/0"
    /\ lastCall.err = NoErr

\* the artefacts of unit u deployed by context c: its job, its agent
\* directory, its syslog conf file and its tools directory
UnitArtefacts(c, u) ==
    [job |-> upstartService(c, u) \in jobs,
     agentDir |-> UnitTag(u) \in agentDirs,
     syslogFile |-> UnitTag(u) \in syslogFiles,
     toolsDir |-> UnitTag(u) \in toolsDirs]

NoArtefacts == [job |-> FALSE, agentDir |-> FALSE, syslogFile |-> FALSE, toolsDir |-> FALSE]

\* context c is the only deployer that has done anything, and it has deployed
\* since it was built
OneContext(c) ==
    /\ syslogConfigPath[c] # ""
    /\ \A d \in DeployerTags \ {c} :
        /\ syslogConfigPath[d] = ""
        /\ \A u \in DeployUnitNames : ~Installed(upstartService(d, u))

\* C15: a RecallUnit(u) that returns nil, on the SimpleContext that deployed u
\* and whatever it deployed or recalled in between, leaves none of u's
\* artefacts: no job, no agent directory, no syslog conf file, no tools directory.
C15_RecallRemovesUnit ==
    [][\A c \in DeployerTags, u \in DeployUnitNames :
        (IsCall("RecallUnit", c, u) /\ lastCall'.err = NoErr /\ OneContext(c)) =>
            UnitArtefacts(c, u)' = NoArtefacts]_vars

\* C16: RecallUnit(u) leaves the artefacts of every other unit deployed through
\* the same SimpleContext as they were.
C16_RecallSparesOthers ==
    [][\A c \in DeployerTags, u \in DeployUnitNames, v \in DeployUnitNames :
        (u # v /\ IsCall("RecallUnit", c, u) /\ Installed(upstartService(c, v))) =>
            UnitArtefacts(c, v)' = UnitArtefacts(c, v)]_vars

\* C17: a DeployUnit that returns an error after its already-deployed check
\* leaves the jobs, tools directories, agent directories and syslog conf files
\* as they were before the call.
C17_FailedDeployRollsBack ==
    [][\A c \in DeployerTags, u \in DeployUnitNames :
        (IsCall("DeployUnit", c, u) /\ lastCall'.err \notin {NoErr, ErrAlreadyDeployed}) =>
            <<jobs, toolsDirs, agentDirs, syslogFiles>>' =
                <<jobs, toolsDirs, agentDirs, syslogFiles>>]_vars

----------------------------------------------------------------------------
(* gate: the Unlocker and the Waiter *)

\* a gate whose Unlock flips its state
GateUnlockToggles(g) ==
    /\ gateUnlocked' = [gateUnlocked EXCEPT ![g] = ~@]
    /\ unlockEvents' = [unlockEvents EXCEPT ![g] = @ + 1]

\* an Unlock that unlocks every gate machine.Manifolds returned
GateUnlockShared(g) ==
    /\ gateUnlocked' = [h \in Gates |-> TRUE]
    /\ unlockEvents' = [h \in Gates |-> IF gateUnlocked[h] THEN unlockEvents[h]
                                        ELSE unlockEvents[h] + 1]

\* an Unlock that signals its waiters anew on every call
GateUnlockRefires(g) ==
    /\ gateUnlocked' = [gateUnlocked EXCEPT ![g] = TRUE]
    /\ unlockEvents' = [unlockEvents EXCEPT ![g] = @ + 1]

\* gate.Unlocker.Unlock: Locked -> Unlocked, no effect on an Unlocked gate
GateUnlock(g) ==
    /\ gateUnlocked' = [gateUnlocked EXCEPT ![g] = TRUE]
    /\ unlockEvents' = [unlockEvents EXCEPT ![g] = IF gateUnlocked[g] THEN @ ELSE @ + 1]

\* gate.Waiter.Unlocked: the channel is readable once the gate is Unlocked
Unlocked(g) == gateUnlocked[g]

\* w, err := manifold.Start(nil)
StartGate ==
    /\ \E g \in Gates :
        /\ ~gateStarted[g]
        /\ gateStarted' = [gateStarted EXCEPT ![g] = TRUE]
    /\ UNCHANGED <<gateUnlocked, unlockCalls, unlockEvents, holding, seen, reads>>
    /\ UNCHANGED notGate

\* err = manifold.Output(w, &waiter)
OutputWaiter ==
    /\ \E g \in Gates, w \in Waiters :
        /\ gateStarted[g]
        /\ holding[w] = "none"
        /\ holding' = [holding EXCEPT ![w] = g]
    /\ UNCHANGED <<gateStarted, gateUnlocked, unlockCalls, unlockEvents, seen, reads>>
    /\ UNCHANGED notGate

\* select { case <-waiter.Unlocked(): ... default: ... }
ReadWaiter ==
    /\ \E w \in Waiters :
        /\ holding[w] # "none"
        /\ reads[w] < MaxReads
        /\ reads' = [reads EXCEPT ![w] = @ + 1]
        /\ seen' = [seen EXCEPT ![w] =
                        IF Unlocked(holding[w]) THEN "unlocked" ELSE "locked"]
    /\ UNCHANGED <<gateStarted, gateUnlocked, unlockCalls, unlockEvents, holding>>
    /\ UNCHANGED notGate

\* unlocker.Unlock()
CallUnlock ==
    /\ \E g \in Gates :
        /\ unlockCalls[g] < MaxUnlocks
        /\ unlockCalls' = [unlockCalls EXCEPT ![g] = @ + 1]
        /\ GateUnlock(g)
    /\ UNCHANGED <<gateStarted, holding, seen, reads>>
    /\ UNCHANGED notGate

NextGate ==
    \/ StartGate
    \/ OutputWaiter
    \/ ReadWaiter
    \/ CallUnlock

SpecGate == Start /\ [][NextGate]_vars

----------------------------------------------------------------------------
(* gate: properties *)

\* the step is a read by waiter w
IsRead(w) == reads'[w] # reads[w]

\* C4: a gate is Locked until Unlock is called and Unlocked ever after: no
\* waiter sees it unlocked before the first Unlock of its gate, every read after
\* the first Unlock sees it unlocked, and an Unlocked gate stays Unlocked.
C4_GateMonotonic ==
    /\ [](\A g \in Gates : Unlocked(g) <=> unlockCalls[g] > 0)
    /\ [](\A w \in Waiters :
            seen[w] = "unlocked" => holding[w] # "none" /\ unlockCalls[holding[w]] > 0)
    /\ [][\A w \in Waiters :
            IsRead(w) =>
                seen'[w] = IF unlockCalls[holding[w]] > 0 THEN "unlocked" ELSE "locked"]_vars
    /\ [][\A g \in Gates : Unlocked(g) => Unlocked(g)']_vars

\* a waiter that read Locked, then Unlocked after two calls of Unlock
C4_Witness ==
    \E w \in Waiters :
        /\ holding[w] # "none"
        /\ reads[w] = MaxReads
        /\ seen[w] = "unlocked"
        /\ unlockCalls[holding[w]] >= 2
        /\ \E v \in Waiters : seen[v] = "locked" /\ holding[v] = holding[w]

\* the step is a call of Unlock on gate g's unlocker
IsUnlock(g) == unlockCalls'[g] # unlockCalls[g]

\* C13: the two gates machine.Manifolds returns are independent: a call of
\* Unlock on one gate's unlocker changes nothing of the other gate, which stays
\* Locked, and is read Locked by its waiters, until its own unlocker is called.
C13_GatesIndependent ==
    /\ [][\A g \in Gates :
            ~IsUnlock(g) =>
                /\ Unlocked(g)' = Unlocked(g)
                /\ unlockEvents'[g] = unlockEvents[g]]_vars
    /\ [](\A g \in Gates : unlockCalls[g] = 0 => ~Unlocked(g))
    /\ [][\A w \in Waiters :
            (IsRead(w) /\ unlockCalls[holding[w]] = 0) => seen'[w] = "locked"]_vars

\* upgrade-steps-gate unlocked and read Unlocked while upgrade-check-gate, never
\* unlocked, has just been read Locked
C13_Witness ==
    /\ unlockCalls["upgrade-steps-gate"] = MaxUnlocks
    /\ unlockCalls["upgrade-check-gate"] = 0
    /\ Unlocked("upgrade-steps-gate")
    /\ ~Unlocked("upgrade-check-gate")
    /\ \E w, v \in Waiters :
        /\ holding[w] = "upgrade-steps-gate" /\ seen[w] = "unlocked"
        /\ holding[v] = "upgrade-check-gate" /\ seen[v] = "locked"
        /\ reads[v] = MaxReads

\* C14: Unlock is idempotent: a call after the first leaves the gate Unlocked
\* and produces no further unlock event, so a gate fires at most once.
C14_UnlockIdempotent ==
    /\ [][\A g \in Gates :
            (IsUnlock(g) /\ unlockCalls[g] >= 1) =>
                /\ Unlocked(g)
                /\ Unlocked(g)'
                /\ unlockEvents'[g] = unlockEvents[g]]_vars
    /\ [](\A g \in Gates : unlockEvents[g] = IF unlockCalls[g] = 0 THEN 0 ELSE 1)

\* both gates unlocked twice, each having fired once
C14_Witness ==
    \A g \in Gates :
        /\ unlockCalls[g] = MaxUnlocks
        /\ MaxUnlocks >= 2
        /\ unlockEvents[g] = 1
        /\ Unlocked(g)

----------------------------------------------------------------------------
(* dependency engine on the graph {A, B} *)

\* a start that reuses the input the slot's last worker was given
ResolveCached(name, dep) ==
    IF starts[name] # <<>> THEN starts[name][Len(starts[name])].input ELSE workerOut[dep]

\* the input of a start: the output extracted from the dependency's current worker
Resolve(name, dep) == workerOut[dep]

\* every dependency of the slot has a running worker
Ready(name) == \A d \in Inputs(name) : slotWorker[d] = "running"

\* step 1 and 2 for A: its factory produces "v<n>" at its n-th start
EngineStartA ==
    /\ slotWorker["A"] = "absent"
    /\ Ready("A")
    /\ slotWorker' = [slotWorker EXCEPT !["A"] = "running"]
    /\ slotGen' = [slotGen EXCEPT !["A"] = @ + 1]
    /\ workerOut' = [workerOut EXCEPT !["A"] = slotGen["A"] + 1]
    /\ starts' = [starts EXCEPT !["A"] =
                    Append(@, [input |-> 0, out |-> slotGen["A"] + 1, latest |-> 0])]
    /\ UNCHANGED <<depGen, deaths>>
    /\ UNCHANGED notEng

\* step 1 and 2 for B: its input is resolved from A, its worker hands it on
EngineStartB ==
    /\ slotWorker["B"] = "absent"
    /\ Ready("B")
    /\ LET in == Resolve("B", "A") IN
        /\ workerOut' = [workerOut EXCEPT !["B"] = in]
        /\ starts' = [starts EXCEPT !["B"] =
                        Append(@, [input |-> in, out |-> in,
                                   latest |-> Len(starts["A"])])]
    /\ slotWorker' = [slotWorker EXCEPT !["B"] = "running"]
    /\ slotGen' = [slotGen EXCEPT !["B"] = @ + 1]
    /\ depGen' = slotGen["A"]
    /\ UNCHANGED deaths
    /\ UNCHANGED notEng

\* B's worker runs on an older generation of A than A's slot has
Stale == slotWorker["B"] = "running" /\ depGen # slotGen["A"]

\* step 3: a generation bump of the dependency bounces the dependent
EngineBounce ==
    /\ Stale
    /\ slotWorker' = [slotWorker EXCEPT !["B"] = "absent"]
    /\ UNCHANGED <<slotGen, workerOut, depGen, starts, deaths>>
    /\ UNCHANGED notEng

\* a worker terminates on its own or is forced to restart
WorkerDies ==
    /\ deaths < MaxDeaths
    /\ \E n \in Manifolds :
        /\ slotWorker[n] = "running"
        /\ slotWorker' = [slotWorker EXCEPT ![n] = "dead"]
    /\ deaths' = deaths + 1
    /\ UNCHANGED <<slotGen, workerOut, depGen, starts>>
    /\ UNCHANGED notEng

\* step 3: the engine takes note of a worker's termination and clears the slot
EngineReap ==
    /\ \E n \in Manifolds :
        /\ slotWorker[n] = "dead"
        /\ slotWorker' = [slotWorker EXCEPT ![n] = "absent"]
    /\ UNCHANGED <<slotGen, workerOut, depGen, starts, deaths>>
    /\ UNCHANGED notEng

NextEng ==
    \/ EngineStartA
    \/ EngineStartB
    \/ EngineBounce
    \/ WorkerDies
    \/ EngineReap

SpecEng == Start /\ [][NextEng]_vars

\* the engine's loop keeps making passes
FairEng ==
    /\ WF_vars(EngineStartA)
    /\ WF_vars(EngineStartB)
    /\ WF_vars(EngineBounce)
    /\ WF_vars(EngineReap)

SpecEngFair == SpecEng /\ FairEng

----------------------------------------------------------------------------
(* dependency engine: properties *)

\* C8: once A has restarted and its generation has advanced, the engine
\* bounces B, and every start of B is given the output of the latest start of
\* A completed by then ("v2" at B's start after A's second start, never "v1").
C8_DependentSeesLatest ==
    /\ [](\A i \in 1..Len(starts["B"]) :
            LET b == starts["B"][i] IN
            /\ b.latest \in 1..Len(starts["A"])
            /\ b.input = starts["A"][b.latest].out)
    /\ Stale ~> ~Stale

\* B started on "v1", was bounced and started again on "v2"
C8_Witness ==
    /\ Len(starts["B"]) = 2
    /\ starts["B"][1].input = 1
    /\ starts["B"][2].input = 2
    /\ Len(starts["A"]) = 2
    /\ slotWorker["B"] = "running"
    /\ deaths = 1

====
